---- MODULE Spec2Model ----
(***************************************************************************)
(* Model of the CAN trace replay tool (src/main.go): main, parseCSV,       *)
(* parseCANFrame and replayFrames.                                         *)
(*                                                                         *)
(* Text is modelled as a sequence of one-character strings, so that the    *)
(* trimming, case folding and number parsing of the parser are computed    *)
(* character by character, as strconv, strings and encoding/hex do.        *)
(*                                                                         *)
(* Machine integers keep a width.  The model checker's integers are 32-bit,*)
(* so the 64-bit words of the program (uint64 timestamps, the int64        *)
(* time.Duration) are modelled WordBits wide and the 32-bit identifier     *)
(* IdBits wide; conversions and products wrap at those widths exactly as   *)
(* the Go conversions and products wrap at 64 and 32 bits.                 *)
(***************************************************************************)
EXTENDS Integers, Sequences, FiniteSets, TLC

\* ------------------------------------------------------------------ bounds

\* Width of the program's 64-bit words (uint64, int64) in the model.
WordBits == 20

\* Width of the program's 32-bit identifier in the model.
IdBits == 30

\* Largest number of data rows (records after the header) of an input file.
MaxRows == 3

\* The pass counter kept for the properties saturates at this value.
MaxPasses == 3

\* ------------------------------------------------------- program constants

\* len(record) < 12
MinColumns == 12

\* time.Microsecond, in nanoseconds (the unit of time.Duration)
Microsecond == 1000

\* i < 8: payload columns D1..D8; also the capacity of can.Frame.Data
MaxPayload == 8

\* strconv.ParseUint(record[5], 10, 8)
LengthBits == 8

\* ------------------------------------------------------------- characters

DecDigits == <<"0", "1", "2", "3", "4", "5", "6", "7", "8", "9">>

LowerLetters == <<"a", "b", "c", "d", "e", "f", "g", "h", "i", "j", "k", "l", "m",
                  "n", "o", "p", "q", "r", "s", "t", "u", "v", "w", "x", "y", "z">>

UpperLetters == <<"A", "B", "C", "D", "E", "F", "G", "H", "I", "J", "K", "L", "M",
                  "N", "O", "P", "Q", "R", "S", "T", "U", "V", "W", "X", "Y", "Z">>

WhiteSpace == {" ", "\t", "\n", "\r"}

InSeq(c, s) == \E k \in 1..Len(s) : s[k] = c

PosIn(c, s) == CHOOSE k \in 1..Len(s) : s[k] = c

\* unicode.ToLower on one character
LowerChar(c) == IF InSeq(c, UpperLetters) THEN LowerLetters[PosIn(c, UpperLetters)] ELSE c

\* strings.ToLower
ToLower(s) == [k \in 1..Len(s) |-> LowerChar(s[k])]

\* The value of a character as a digit, as strconv.ParseUint reads it:
\* '0'..'9' are 0..9, letters of either case are 10..35, anything else is
\* no digit (36, which no base accepts).
DigitVal(c) ==
    IF InSeq(c, DecDigits) THEN PosIn(c, DecDigits) - 1
    ELSE IF InSeq(LowerChar(c), LowerLetters) THEN PosIn(LowerChar(c), LowerLetters) + 9
    ELSE 36

\* ------------------------------------------------------------ strings

\* strings.TrimPrefix
TrimPrefix(s, p) ==
    IF Len(s) >= Len(p) /\ SubSeq(s, 1, Len(p)) = p
    THEN SubSeq(s, Len(p) + 1, Len(s))
    ELSE s

\* strings.TrimSuffix
TrimSuffix(s, p) ==
    IF Len(s) >= Len(p) /\ SubSeq(s, Len(s) - Len(p) + 1, Len(s)) = p
    THEN SubSeq(s, 1, Len(s) - Len(p))
    ELSE s

RECURSIVE TrimLeftSet(_, _)
\* strings.TrimLeft(s, cutset) with the cutset given as a set of characters
TrimLeftSet(s, cut) ==
    IF s # <<>> /\ Head(s) \in cut THEN TrimLeftSet(Tail(s), cut) ELSE s

RECURSIVE TrimRightSet(_, _)
TrimRightSet(s, cut) ==
    IF s # <<>> /\ s[Len(s)] \in cut
    THEN TrimRightSet(SubSeq(s, 1, Len(s) - 1), cut)
    ELSE s

\* strings.TrimSpace
TrimSpace(s) == TrimRightSet(TrimLeftSet(s, WhiteSpace), WhiteSpace)

\* ------------------------------------------------------------ numbers

\* 2^bits - 1, computed without leaving the checker's integer range
MaxUint(bits) == (2 ^ (bits - 1) - 1) * 2 + 1

RECURSIVE ParseDigits(_, _, _, _)
\* The digit loop of strconv.ParseUint: acc is the value read so far.
\* A character that is no digit of the base is a syntax error, a value
\* above maxVal is a range error.
ParseDigits(s, base, maxVal, acc) ==
    IF s = <<>> THEN [ok |-> TRUE, val |-> acc]
    ELSE IF DigitVal(Head(s)) >= base THEN [ok |-> FALSE, val |-> 0]
    ELSE IF acc > (maxVal - DigitVal(Head(s))) \div base THEN [ok |-> FALSE, val |-> 0]
    ELSE ParseDigits(Tail(s), base, maxVal, acc * base + DigitVal(Head(s)))

\* strconv.ParseUint(s, base, bitSize) for an explicit base (10 or 16): no
\* sign, no prefix, no underscore; the empty string is a syntax error.
ParseUint(s, base, bits) ==
    IF s = <<>> THEN [ok |-> FALSE, val |-> 0]
    ELSE ParseDigits(s, base, MaxUint(bits), 0)

\* encoding/hex.DecodeString: pairs of hex digits to bytes; an odd length or
\* a character that is no hex digit is an error.
RECURSIVE HexDecode(_)
HexDecode(s) ==
    IF s = <<>> THEN [ok |-> TRUE, bytes |-> <<>>]
    ELSE IF Len(s) = 1 THEN [ok |-> FALSE, bytes |-> <<>>]
    ELSE IF DigitVal(s[1]) >= 16 \/ DigitVal(s[2]) >= 16 THEN [ok |-> FALSE, bytes |-> <<>>]
    ELSE LET rest == HexDecode(SubSeq(s, 3, Len(s)))
         IN  [ok |-> rest.ok,
              bytes |-> IF rest.ok THEN <<DigitVal(s[1]) * 16 + DigitVal(s[2])>> \o rest.bytes
                        ELSE <<>>]

\* ------------------------------------------------------- machine words

\* A value as a uint64 (the model's WordBits-wide unsigned word).
ToUint64(x) == x % (2 ^ WordBits)

\* ToInt64 with the word kept unsigned: the bit pattern is never negative.
ToInt64_Unsigned(u) == ToUint64(u)

\* time.Duration(u): the uint64 bit pattern read as an int64.
ToInt64(u) == IF ToUint64(u) >= 2 ^ (WordBits - 1) THEN ToUint64(u) - 2 ^ WordBits ELSE ToUint64(u)

\* Product of two int64 values, wrapped to int64.
MulInt64(a, b) == ToInt64(a * b)

\* ------------------------------------------------------------- parseCANFrame

TextTrue == <<"t", "r", "u", "e">>

NoFrame == [Timestamp |-> 0, ID |-> 0, Extended |-> FALSE, Data |-> <<>>, Length |-> 0]

\* IdText without the TrimPrefix "0x": only leading zeros are stripped.
IdText_NoPrefix(field) ==
    LET stripped == TrimLeftSet(field, {"0"})
    IN  IF stripped = <<>> THEN <<"0">> ELSE stripped

\* idStr after TrimPrefix "0x", TrimLeft "0" and the all-zero default
IdText(field) ==
    LET stripped == TrimLeftSet(TrimPrefix(field, <<"0", "x">>), {"0"})
    IN  IF stripped = <<>> THEN <<"0">> ELSE stripped

\* dataStr: the payload column after TrimSpace and TrimSuffix ","
DataText(field) == TrimSuffix(TrimSpace(field), <<",">>)

\* hex.DecodeString(dataStr) succeeds with exactly one byte
DecodesToByte(field) ==
    HexDecode(DataText(field)).ok /\ Len(HexDecode(DataText(field)).bytes) = 1

\* ByteOf with the two hex digits read low digit first.
ByteOf_LowFirst(field) == DigitVal(DataText(field)[2]) * 16 + DigitVal(DataText(field)[1])

\* b[0] of a column that decodes to one byte
ByteOf(field) == HexDecode(DataText(field)).bytes[1]

\* The payload loop stops at 0-based index k: record[6+k] (element 7+k of
\* the sequence) is past the end of the record, or does not decode.
StopsAt(record, k) ==
    IF 7 + k > Len(record) THEN TRUE ELSE ~DecodesToByte(record[7 + k])

\* The payload loop "for i := 0; i < int(frame.Length) && i < 8; i++": the
\* first index at which it stops decides.  An index past the end of the
\* record is a run-time panic (index out of range), a column that does not
\* decode is the error naming column D(i+1); otherwise the bytes read fill
\* the first min(length, 8) places of the zeroed Data.
ParseData(record, length) ==
    LET n == IF length < MaxPayload THEN length ELSE MaxPayload
        stops == {k \in 0..n - 1 : StopsAt(record, k)}
        first == CHOOSE k \in stops : \A m \in stops : k <= m
    IN  IF stops = {}
        THEN [st |-> "ok", col |-> 0,
              data |-> [k \in 1..length |-> IF k <= n THEN ByteOf(record[6 + k]) ELSE 0]]
        ELSE IF 7 + first > Len(record)
        THEN [st |-> "panic", col |-> first + 1, data |-> <<>>]
        ELSE [st |-> "err", col |-> first + 1, data |-> <<>>]

\* parseCANFrame(record), for a record of at least MinColumns columns.
\* st is "ok" (frame, nil), "err" (an error, with its reason and, for a data
\* byte, the column number) or "panic".
ParseCANFrame(record) ==
    LET ts  == ParseUint(record[1], 10, WordBits)
        id  == ParseUint(IdText(record[2]), 16, IdBits)
        ext == ToLower(record[3]) = TextTrue
        len == ParseUint(record[6], 10, LengthBits)
        dat == ParseData(record, len.val)
    IN  IF ~ts.ok THEN [st |-> "err", reason |-> "invalid timestamp", col |-> 0, frame |-> NoFrame]
        ELSE IF ~id.ok THEN [st |-> "err", reason |-> "invalid CAN ID", col |-> 0, frame |-> NoFrame]
        ELSE IF ~len.ok THEN [st |-> "err", reason |-> "invalid length", col |-> 0, frame |-> NoFrame]
        ELSE IF dat.st = "panic" THEN [st |-> "panic", reason |-> "index out of range", col |-> dat.col, frame |-> NoFrame]
        ELSE IF dat.st = "err" THEN [st |-> "err", reason |-> "invalid data byte", col |-> dat.col, frame |-> NoFrame]
        ELSE [st |-> "ok", reason |-> "", col |-> 0,
              frame |-> [Timestamp |-> ts.val, ID |-> id.val, Extended |-> ext,
                         Data |-> dat.data, Length |-> len.val]]

\* ------------------------------------------------------------- input files

Rx == <<"R", "x">>
Byte00 == <<"0", "0">>
Byte09 == <<"0", "9">>
Byte1C == <<"1", "C">>
Byte46 == <<"4", "6">>
Byte01 == <<"0", "1">>

\* The six leading columns of a data row.
Lead(ts, id, ext, len) == <<ts, id, ext, Rx, <<"0">>, len>>

\* 100,000005F4,false,Rx,0,8,00,09,1C,46,00,00,00,01 (the README's row)
RowA == Lead(<<"1", "0", "0">>, <<"0", "0", "0", "0", "0", "5", "F", "4">>,
             <<"f", "a", "l", "s", "e">>, <<"8">>)
        \o <<Byte00, Byte09, Byte1C, Byte46, Byte00, Byte00, Byte00, Byte01>>

\* 150,0x1A,TRUE,Rx,0,2,1c," 0A,",00,...: prefix, upper-case flag, lower-case
\* hex, surrounding space and a trailing comma in a payload column
RowB == Lead(<<"1", "5", "0">>, <<"0", "x", "1", "A">>, <<"T", "R", "U", "E">>, <<"2">>)
        \o <<<<"1", "c">>, <<" ", "0", "A", ",">>, Byte00, Byte00, Byte00, Byte00, Byte00, Byte00>>

\* 400,05f4,false,Rx,0,0,...: no payload
RowC == Lead(<<"4", "0", "0">>, <<"0", "5", "f", "4">>, <<"f", "a", "l", "s", "e">>, <<"0">>)
        \o <<Byte00, Byte00, Byte00, Byte00, Byte00, Byte00, Byte00, Byte00>>

\* 5000,7FF,false,Rx,0,9,...: a declared length of 9 with D1..D8 present
RowLen9 == Lead(<<"5", "0", "0", "0">>, <<"7", "F", "F">>, <<"f", "a", "l", "s", "e">>, <<"9">>)
           \o <<Byte01, Byte01, Byte01, Byte01, Byte01, Byte01, Byte01, Byte01>>

\* a timestamp that is no unsigned decimal
RowBadTs == Lead(<<"-", "5">>, <<"1">>, <<"f", "a", "l", "s", "e">>, <<"1">>)
            \o <<Byte00, Byte00, Byte00, Byte00, Byte00, Byte00, Byte00, Byte00>>

\* an identifier that is not base-16 after stripping (upper-case 0X prefix)
RowBadId == Lead(<<"2", "0", "0">>, <<"0", "X", "5", "F", "4">>, <<"f", "a", "l", "s", "e">>, <<"1">>)
            \o <<Byte00, Byte00, Byte00, Byte00, Byte00, Byte00, Byte00, Byte00>>

\* a length outside 0..255
RowBadLen == Lead(<<"2", "0", "0">>, <<"1">>, <<"f", "a", "l", "s", "e">>, <<"2", "5", "6">>)
             \o <<Byte00, Byte00, Byte00, Byte00, Byte00, Byte00, Byte00, Byte00>>

\* D3 is one hex digit only
RowBadByte == Lead(<<"2", "0", "0">>, <<"1">>, <<"t", "r", "u", "e">>, <<"8">>)
              \o <<Byte00, Byte09, <<"1">>, Byte46, Byte00, Byte00, Byte00, Byte01>>

\* twelve columns, length 2: D1, D2 supplied
Row12Len2 == Lead(<<"1", "5", "0">>, <<"2", "0">>, <<"f", "a", "l", "s", "e">>, <<"2">>)
             \o <<Byte00, Byte09, Byte1C, Byte46, Byte00, Byte00>>

\* twelve columns, length 8: D7, D8 not supplied
Row12Len8 == Lead(<<"4", "0", "0">>, <<"2", "0">>, <<"f", "a", "l", "s", "e">>, <<"8">>)
             \o <<Byte00, Byte09, Byte1C, Byte46, Byte00, Byte00>>

\* three columns
RowShort == <<<<"3", "0", "0">>, <<"1">>, <<"f", "a", "l", "s", "e">>>>

\* A header record of n columns (its text is never read).
Header(n) == [k \in 1..n |-> <<"h">>]

Headers == {Header(14), Header(12), Header(3)}

DataRows == {RowA, RowB, RowC, RowLen9, RowBadTs, RowBadId, RowBadLen, RowBadByte,
             Row12Len2, Row12Len8, RowShort}

SeqsUpTo(S, n) == UNION {[1..k -> S] : k \in 0..n}

\* The files the reader may be given: the empty file, or a header record
\* followed by up to MaxRows data records.
Files == {<<>>} \cup {<<h>> \o d : h \in Headers, d \in SeqsUpTo(DataRows, MaxRows)}

\* Well-formed files only: a 14-column header and rows that parse.
GoodFiles == {<<Header(14)>> \o d : d \in SeqsUpTo({RowA, RowC}, MaxRows)}

\* Identifier columns: the spellings of 0x5F4, zero, the ends of the 11-bit
\* and 29-bit ranges and what lies past them, and texts that are not base-16.
IdTexts ==
    {<<"0", "x", "0", "0", "0", "5", "F", "4">>, <<"5", "F", "4">>, <<"0", "5", "f", "4">>,
     <<"0", "0", "0", "0", "0", "0", "0", "0">>, <<"0", "x">>, <<"7", "f", "f">>,
     <<"8", "0", "0">>, <<"1", "F", "F", "F", "F", "F", "F", "F">>,
     <<"2", "0", "0", "0", "0", "0", "0", "0">>, <<"4", "0", "0", "0", "0", "0", "0", "0">>,
     <<"0", "X", "5", "F", "4">>, <<"G", "1">>}

\* Extended columns
FlagTexts == {<<"t", "r", "u", "e">>, <<"T", "r", "u", "E">>, <<"f", "a", "l", "s", "e">>,
              <<"1">>, <<>>}

\* LEN columns
LenTexts == {<<"0">>, <<"3">>, <<"8">>, <<"9">>}

\* D1..D8 columns
PayloadTexts ==
    {<<<<"A", "B">>, <<"c", "d">>, <<" ", "0", "A", ",">>, Byte46, Byte00, Byte01, Byte09, <<"f", "F">>>>,
     <<Byte01, Byte01, Byte01, Byte01, Byte01, Byte01, Byte01, Byte01>>}

\* Files of a header and one 14-column data row, over every combination of
\* the column texts above.
RowFiles ==
    {<<Header(14), Lead(<<"1", "0", "0">>, id, ext, len) \o d>> :
        id \in IdTexts, ext \in FlagTexts, len \in LenTexts, d \in PayloadTexts}

\* ------------------------------------------------------------------ state

VARIABLES
    pc,        \* where the program is
    loop,      \* the -loop flag
    file,      \* the records of the opened file, as the csv reader splits them
    row,       \* i of "for i, record := range records[1:]"
    frames,    \* parseCSV's frames
    warnings,  \* the rows skipped: <<row number reported, reason, column>>
    parseErr,  \* the error parseCSV returned ("" for nil)
    bus,       \* the transport: "closed", "open" or "disconnected"
    i,         \* index of the frame replayFrames is at
    pass,      \* number of the pass replayFrames is in (saturates at MaxPasses)
    log,       \* sleeps and submissions of the current pass, in order
    firstLog,  \* the log of the first pass, once that pass is complete
    busFailed, \* whether the transport has reported a failure
    result,    \* what replayFrames returned
    exitCode   \* the status the process ended with (-1 while it runs)

vars == <<pc, loop, file, row, frames, warnings, parseErr, bus, i, pass, log,
          firstLog, busFailed, result, exitCode>>

NoResult == [kind |-> "none", index |-> 0, id |-> 0]

Init ==
    /\ pc = "main"
    /\ loop = FALSE
    /\ file = <<>>
    /\ row = 0
    /\ frames = <<>>
    /\ warnings = <<>>
    /\ parseErr = ""
    /\ bus = "closed"
    /\ i = 0
    /\ pass = 0
    /\ log = <<>>
    /\ firstLog = <<>>
    /\ busFailed = FALSE
    /\ result = NoResult
    /\ exitCode = -1

\* ------------------------------------------------------------------ main

\* flag.Parse and the check of -csv: without a file the process ends (log.Fatal).
MainStart ==
    /\ pc = "main"
    /\ \E csvGiven \in BOOLEAN, lp \in BOOLEAN :
         /\ loop' = lp
         /\ IF csvGiven
            THEN pc' = "open" /\ exitCode' = exitCode
            ELSE pc' = "exit" /\ exitCode' = 1
    /\ UNCHANGED <<file, row, frames, warnings, parseErr, bus, i, pass, log,
                   firstLog, busFailed, result>>

\* ------------------------------------------------------------------ parseCSV

\* os.Open, the file being one of the set fs: on failure parseCSV returns
\* the error and main ends the process.
OpenFileFrom(fs) ==
    /\ pc = "open"
    /\ \/ /\ parseErr' = "failed to open CSV"
          /\ pc' = "exit"
          /\ exitCode' = 1
          /\ file' = file
       \/ /\ \E f \in fs : file' = f
          /\ pc' = "read"
          /\ UNCHANGED <<parseErr, exitCode>>
    /\ UNCHANGED <<loop, row, frames, warnings, bus, i, pass, log, firstLog,
                   busFailed, result>>

OpenFile == OpenFileFrom(Files)

\* csv.Reader.ReadAll with the reader's defaults: FieldsPerRecord is 0, so the
\* number of fields of the first record is required of every later record,
\* and a record with another number of fields is an error (ErrFieldCount).
FieldCountOk(recs) == \A k \in 1..Len(recs) : Len(recs[k]) = Len(recs[1])

\* ReadAll with the check for data rows off by one: len(records) < 1.
ReadAll_OffByOne ==
    /\ pc = "read"
    /\ IF ~FieldCountOk(file)
       THEN parseErr' = "failed to read CSV" /\ pc' = "exit" /\ exitCode' = 1
       ELSE IF Len(file) < 1
       THEN parseErr' = "CSV file is empty or has no data rows" /\ pc' = "exit" /\ exitCode' = 1
       ELSE parseErr' = parseErr /\ pc' = "rows" /\ exitCode' = exitCode
    /\ UNCHANGED <<loop, file, row, frames, warnings, bus, i, pass, log, firstLog,
                   busFailed, result>>

\* reader.ReadAll and the len(records) < 2 check.
ReadAll ==
    /\ pc = "read"
    /\ IF ~FieldCountOk(file)
       THEN parseErr' = "failed to read CSV" /\ pc' = "exit" /\ exitCode' = 1
       ELSE IF Len(file) < 2
       THEN parseErr' = "CSV file is empty or has no data rows" /\ pc' = "exit" /\ exitCode' = 1
       ELSE parseErr' = parseErr /\ pc' = "rows" /\ exitCode' = exitCode
    /\ UNCHANGED <<loop, file, row, frames, warnings, bus, i, pass, log, firstLog,
                   busFailed, result>>

\* The body of the loop over records[1:] on one record: the record is
\* skipped for its column count, or parseCANFrame decides.
RowOutcome(record) ==
    IF Len(record) < MinColumns
    THEN [st |-> "err", reason |-> "insufficient columns", col |-> 0, frame |-> NoFrame]
    ELSE ParseCANFrame(record)

\* One iteration of the loop over records[1:], on the record at 0-based
\* position row (element row + 2 of the file, counting the header): a
\* warning with the row number row + 2, a frame appended, or a panic, which
\* ends the process.
ParseRow ==
    /\ pc = "rows"
    /\ row < Len(file) - 1
    /\ \E r \in {RowOutcome(file[row + 2])} :
         /\ warnings' = IF r.st = "err" THEN Append(warnings, <<row + 2, r.reason, r.col>>)
                        ELSE warnings
         /\ frames' = IF r.st = "ok" THEN Append(frames, r.frame) ELSE frames
         /\ row' = IF r.st = "panic" THEN row ELSE row + 1
         /\ pc' = IF r.st = "panic" THEN "exit" ELSE pc
         /\ exitCode' = IF r.st = "panic" THEN 2 ELSE exitCode
    /\ UNCHANGED <<loop, file, parseErr, bus, i, pass, log, firstLog, busFailed, result>>

\* The loop is over: parseCSV returns (frames, nil) to main.
ParseReturn ==
    /\ pc = "rows"
    /\ row = Len(file) - 1
    /\ pc' = "bus"
    /\ UNCHANGED <<loop, file, row, frames, warnings, parseErr, bus, i, pass, log,
                   firstLog, busFailed, result, exitCode>>

\* can.NewBusForInterfaceWithName: on failure main ends the process.
OpenBus ==
    /\ pc = "bus"
    /\ \/ pc' = "exit" /\ exitCode' = 1 /\ bus' = bus
       \/ pc' = "replay" /\ exitCode' = exitCode /\ bus' = "open"
    /\ UNCHANGED <<loop, file, row, frames, warnings, parseErr, i, pass, log,
                   firstLog, busFailed, result>>

\* ------------------------------------------------------------- replayFrames

\* can.Frame with no field set
NoWire == [ID |-> 0, Length |-> 0, Flags |-> {}, Data |-> [k \in 1..MaxPayload |-> 0]]

\* copy(canFrame.Data[:], frame.Data): the first min(8, len(Data)) bytes, the
\* rest of the array stays zero
CopyData(data) ==
    [k \in 1..MaxPayload |-> IF k <= Len(data) THEN data[k] ELSE 0]

\* Encode without the can.EFF flag: every frame goes out as a standard frame.
Encode_Standard(frame) ==
    [ID |-> frame.ID,
     Length |-> frame.Length,
     Flags |-> {},
     Data |-> CopyData(frame.Data)]

\* The can.Frame built from a frame; Flags is the set of flags that are set.
Encode(frame) ==
    [ID |-> frame.ID,
     Length |-> frame.Length,
     Flags |-> IF frame.Extended THEN {"EFF"} ELSE {},
     Data |-> CopyData(frame.Data)]

\* Delay with a gap before the first frame of a later pass, taken from the
\* duration of the trace.
Delay_LoopGap(fs, k) ==
    IF k = 0
    THEN IF pass > 1
         THEN MulInt64(ToInt64(ToUint64(fs[Len(fs)].Timestamp - fs[1].Timestamp)), Microsecond)
         ELSE 0
    ELSE MulInt64(ToInt64(ToUint64(fs[k + 1].Timestamp - fs[k].Timestamp)), Microsecond)

\* delay, in nanoseconds, before the frame at 0-based index k:
\* deltaUs is a uint64 difference, time.Duration(deltaUs) reads it as an
\* int64 and the product with time.Microsecond is an int64 product.
Delay(fs, k) ==
    IF k = 0 THEN 0
    ELSE LET deltaUs == ToUint64(fs[k + 1].Timestamp - fs[k].Timestamp)
         IN  MulInt64(ToInt64(deltaUs), Microsecond)

SleepEvent(ns) == [op |-> "sleep", ns |-> ns, idx |-> 0, frame |-> NoWire]

PublishEvent(k, wire) == [op |-> "publish", ns |-> 0, idx |-> k, frame |-> wire]

\* ReplayEnter with the empty trace taken as nothing to do: it returns nil.
ReplayEnter_EmptyOk ==
    /\ pc = "replay"
    /\ IF Len(frames) = 0
       THEN /\ result' = [kind |-> "nil", index |-> 0, id |-> 0]
            /\ pc' = "return"
            /\ UNCHANGED <<i, pass>>
       ELSE /\ i' = 0
            /\ pass' = 1
            /\ pc' = "delay"
            /\ UNCHANGED result
    /\ UNCHANGED <<loop, file, row, frames, warnings, parseErr, bus, log, firstLog,
                   busFailed, exitCode>>

\* Entry of replayFrames: an empty trace is an error.
ReplayEnter ==
    /\ pc = "replay"
    /\ IF Len(frames) = 0
       THEN /\ result' = [kind |-> "noframes", index |-> 0, id |-> 0]
            /\ pc' = "return"
            /\ UNCHANGED <<i, pass>>
       ELSE /\ i' = 0
            /\ pass' = 1
            /\ pc' = "delay"
            /\ UNCHANGED result
    /\ UNCHANGED <<loop, file, row, frames, warnings, parseErr, bus, log, firstLog,
                   busFailed, exitCode>>

\* The delay of frame i and time.Sleep when it is positive.
Sleep ==
    /\ pc = "delay"
    /\ log' = IF Delay(frames, i) > 0 THEN Append(log, SleepEvent(Delay(frames, i))) ELSE log
    /\ pc' = "publish"
    /\ UNCHANGED <<loop, file, row, frames, warnings, parseErr, bus, i, pass,
                   firstLog, busFailed, result, exitCode>>

\* Publish with the range loop ending one frame early.
Publish_SkipsLast ==
    /\ pc = "publish"
    /\ \/ /\ busFailed' = TRUE
          /\ result' = [kind |-> "sendfail", index |-> i, id |-> frames[i + 1].ID]
          /\ pc' = "return"
          /\ UNCHANGED <<i, log>>
       \/ /\ log' = Append(log, PublishEvent(i, Encode(frames[i + 1])))
          /\ IF i + 2 < Len(frames)
             THEN i' = i + 1 /\ pc' = "delay"
             ELSE i' = i /\ pc' = "endpass"
          /\ UNCHANGED <<busFailed, result>>
    /\ UNCHANGED <<loop, file, row, frames, warnings, parseErr, bus, pass,
                   firstLog, exitCode>>

\* Publish with the error of bus.Publish dropped: the loop goes on to the
\* next frame.
Publish_IgnoresError ==
    /\ pc = "publish"
    /\ \/ /\ busFailed' = TRUE
          /\ IF i + 1 < Len(frames)
             THEN i' = i + 1 /\ pc' = "delay"
             ELSE i' = i /\ pc' = "endpass"
          /\ UNCHANGED <<result, log>>
       \/ /\ log' = Append(log, PublishEvent(i, Encode(frames[i + 1])))
          /\ IF i + 1 < Len(frames)
             THEN i' = i + 1 /\ pc' = "delay"
             ELSE i' = i /\ pc' = "endpass"
          /\ UNCHANGED <<busFailed, result>>
    /\ UNCHANGED <<loop, file, row, frames, warnings, parseErr, bus, pass,
                   firstLog, exitCode>>

\* bus.Publish(canFrame): a failure returns the error, a success goes on to
\* the next frame of the range loop.
Publish ==
    /\ pc = "publish"
    /\ \/ /\ busFailed' = TRUE
          /\ result' = [kind |-> "sendfail", index |-> i, id |-> frames[i + 1].ID]
          /\ pc' = "return"
          /\ UNCHANGED <<i, log>>
       \/ /\ log' = Append(log, PublishEvent(i, Encode(frames[i + 1])))
          /\ IF i + 1 < Len(frames)
             THEN i' = i + 1 /\ pc' = "delay"
             ELSE i' = i /\ pc' = "endpass"
          /\ UNCHANGED <<busFailed, result>>
    /\ UNCHANGED <<loop, file, row, frames, warnings, parseErr, bus, pass,
                   firstLog, exitCode>>

\* EndPass with loop meaning one repetition: it returns nil after the second pass.
EndPass_Once ==
    /\ pc = "endpass"
    /\ IF ~loop \/ pass >= 2
       THEN /\ result' = [kind |-> "nil", index |-> 0, id |-> 0]
            /\ pc' = "return"
            /\ UNCHANGED <<i, pass, log, firstLog>>
       ELSE /\ i' = 0
            /\ pass' = IF pass < MaxPasses THEN pass + 1 ELSE pass
            /\ firstLog' = IF pass = 1 THEN log ELSE firstLog
            /\ log' = <<>>
            /\ pc' = "delay"
            /\ UNCHANGED result
    /\ UNCHANGED <<loop, file, row, frames, warnings, parseErr, bus, busFailed, exitCode>>

\* After the range loop: break and return nil without loop, else the next pass.
EndPass ==
    /\ pc = "endpass"
    /\ IF ~loop
       THEN /\ result' = [kind |-> "nil", index |-> 0, id |-> 0]
            /\ pc' = "return"
            /\ UNCHANGED <<i, pass, log, firstLog>>
       ELSE /\ i' = 0
            /\ pass' = IF pass < MaxPasses THEN pass + 1 ELSE pass
            /\ firstLog' = IF pass = 1 THEN log ELSE firstLog
            /\ log' = <<>>
            /\ pc' = "delay"
            /\ UNCHANGED result
    /\ UNCHANGED <<loop, file, row, frames, warnings, parseErr, bus, busFailed, exitCode>>

\* ReplayReturn with the error only logged: main returns with status zero.
ReplayReturn_ErrorLogged ==
    /\ pc = "return"
    /\ bus' = "disconnected"
    /\ exitCode' = 0
    /\ pc' = "exit"
    /\ UNCHANGED <<loop, file, row, frames, warnings, parseErr, i, pass, log,
                   firstLog, busFailed, result>>

\* main after replayFrames: an error ends the process through log.Fatalf
\* (os.Exit, which runs no deferred call); nil lets main return, which runs
\* the deferred bus.Disconnect.
ReplayReturn ==
    /\ pc = "return"
    /\ IF result.kind = "nil"
       THEN bus' = "disconnected" /\ exitCode' = 0
       ELSE bus' = bus /\ exitCode' = 1
    /\ pc' = "exit"
    /\ UNCHANGED <<loop, file, row, frames, warnings, parseErr, i, pass, log,
                   firstLog, busFailed, result>>

Next ==
    \/ MainStart
    \/ OpenFile
    \/ ReadAll
    \/ ParseRow
    \/ ParseReturn
    \/ OpenBus
    \/ ReplayEnter
    \/ Sleep
    \/ Publish
    \/ EndPass
    \/ ReplayReturn

Spec == Init /\ [][Next]_vars

\* The program run on well-formed files only.
GoodOpenFile == OpenFileFrom(GoodFiles)

GoodNext ==
    \/ MainStart
    \/ GoodOpenFile
    \/ ReadAll
    \/ ParseRow
    \/ ParseReturn
    \/ OpenBus
    \/ ReplayEnter
    \/ Sleep
    \/ Publish
    \/ EndPass
    \/ ReplayReturn

\* The program is one thread of control: whatever step it is at is taken.
\* The program run on one-row files that vary every column of the row.
RowOpenFile == OpenFileFrom(RowFiles)

RowNext ==
    \/ MainStart
    \/ RowOpenFile
    \/ ReadAll
    \/ ParseRow
    \/ ParseReturn
    \/ OpenBus
    \/ ReplayEnter
    \/ Sleep
    \/ Publish
    \/ EndPass
    \/ ReplayReturn

RowSpec == Init /\ [][RowNext]_vars

\* replayFrames is one sequential loop: the step it is at is taken.  Only
\* the steps of that loop need fairness for what is claimed of the replay.
FairSpec ==
    /\ Init
    /\ [][GoodNext]_vars
    /\ WF_vars(Sleep) /\ WF_vars(Publish) /\ WF_vars(EndPass)

\* ------------------------------------------------------------------ properties

Last(q) == q[Len(q)]

\* The submissions of the current pass, in order.
Published == SelectSeq(log, LAMBDA e : e.op = "publish")

\* replayFrames has been entered and has not returned.
Replaying == pc \in {"delay", "publish", "endpass"}

\* replayFrames has returned.
Returned == result.kind # "none"

\* The k-th submission of the pass is frame k-1 of the trace.
InTraceOrder ==
    \A k \in 1..Len(Published) :
        /\ k <= Len(frames)
        /\ Published[k].idx = k - 1
        /\ Published[k].frame.ID = frames[k].ID
        /\ Published[k].frame.Length = frames[k].Length

\* C1: without loop, on a non-empty trace and a transport that accepts every
\* frame, the submissions are at every moment the first frames of the trace in
\* trace order, each once, and when replayFrames returns it returns success
\* having submitted exactly the n frames of the trace.
C1_OnePassInOrder ==
    (~loop /\ Len(frames) > 0 /\ ~busFailed /\ (Replaying \/ Returned)) =>
        /\ InTraceOrder
        /\ pass = 1
        /\ Returned => result.kind = "nil" /\ Len(Published) = Len(frames)

C1_Witness ==
    /\ ~loop
    /\ result.kind = "nil"
    /\ Len(frames) = 3
    /\ Len(Published) = 3
    /\ exitCode = 0

\* The suspension that precedes the k-th submission (k >= 2) of the pass: the
\* nanoseconds of the sleep logged between submissions k-1 and k, 0 if none.
RECURSIVE SleepsBefore(_, _)
SleepsBefore(q, k) ==
    \* the sleeps logged after the (k-1)-th and before the k-th submission of q
    IF q = <<>> THEN <<>>
    ELSE IF Head(q).op = "publish"
         THEN IF k = 1 THEN <<>> ELSE SleepsBefore(Tail(q), k - 1)
         ELSE IF k = 1 THEN <<Head(q).ns>> \o SleepsBefore(Tail(q), k)
              ELSE SleepsBefore(Tail(q), k)

NonDecreasing == \A k \in 1..Len(frames) - 1 : frames[k].Timestamp <= frames[k + 1].Timestamp

\* C2: in a pass over a trace with non-decreasing timestamps frame 0 is
\* submitted with no suspension, and before frame k > 0 there is exactly one
\* suspension, of timestamp[k] - timestamp[k-1] microseconds, or none when
\* that difference is zero.
C2_ExactDelays ==
    (NonDecreasing /\ (Replaying \/ Returned)) =>
        \A k \in 1..Len(Published) :
            LET sl == SleepsBefore(log, k)
                gap == IF k = 1 THEN 0 ELSE frames[k].Timestamp - frames[k - 1].Timestamp
            IN  IF gap = 0 THEN sl = <<>> ELSE sl = <<gap * Microsecond>>

\* The README's timing example is reproduced: timestamps 100, 150, 400 give
\* no suspension, then 50 and 250 microseconds.
C2_ExampleReached ==
    /\ Len(frames) = 3
    /\ frames[1].Timestamp = 100 /\ frames[2].Timestamp = 150 /\ frames[3].Timestamp = 400
    /\ Len(Published) = 3
    /\ SleepsBefore(log, 1) = <<>>
    /\ SleepsBefore(log, 2) = <<50 * Microsecond>>
    /\ SleepsBefore(log, 3) = <<250 * Microsecond>>

\* C3: once the transport has reported a failure, replayFrames has returned an
\* error carrying the 0-based index k and the identifier of the failing frame;
\* the pass holds the submissions of frames 0..k-1 and nothing else: frame k
\* and the frames after it are not submitted, and nothing is logged after the
\* suspension that preceded frame k.
C3_FailureAborts ==
    busFailed =>
        /\ pc \in {"return", "exit"}
        /\ result.kind = "sendfail"
        /\ result.index = i
        /\ result.index < Len(frames)
        /\ result.id = frames[result.index + 1].ID
        /\ Len(Published) = result.index
        /\ InTraceOrder
        /\ log # <<>> /\ Last(log).op = "sleep" => SleepsBefore(log, result.index + 1) = <<Last(log).ns>>
        /\ exitCode # 0

C3_Witness ==
    /\ busFailed
    /\ loop
    /\ pass = 2
    /\ result.index = 1
    /\ pc = "exit"

\* q is an initial part of r.
IsPrefix(q, r) == Len(q) <= Len(r) /\ \A k \in 1..Len(q) : q[k] = r[k]

\* C4: with loop set, every pass after the first starts at index 0 and
\* submits frame 0 with no suspension before it, and its suspensions and
\* submissions are those of the first pass, in the same order.
C4_LoopRestart ==
    (loop /\ pass >= 2) =>
        /\ Replaying \/ busFailed
        /\ pc = "publish" /\ i = 0 => log = <<>>
        /\ log # <<>> => log[1].op = "publish" /\ log[1].idx = 0
        /\ IsPrefix(log, firstLog)
        /\ Len(Published) = Len(frames) => log = firstLog

C4_Witness ==
    /\ loop
    /\ pass = MaxPasses
    /\ pc = "endpass"
    /\ Len(frames) = 3
    /\ \E k \in 1..Len(log) : log[k].op = "sleep"
    /\ log = firstLog

\* Frame j (0-based) is the latest submission.
JustSubmitted(j) == log # <<>> /\ Last(log).op = "publish" /\ Last(log).idx = j

\* C5: with loop set on a non-empty trace replayFrames returns only with a
\* transmission failure, never with success, and as long as the transport
\* accepts, every frame of the trace is submitted again and again: whenever
\* the replay is running and frame j is not the latest submission, frame j
\* is submitted later or the transport fails.
C5_LoopForever ==
    /\ []((loop /\ Len(frames) > 0 /\ Returned) => (result.kind = "sendfail" /\ busFailed))
    /\ \A j \in 0..MaxRows - 1 :
         []((loop /\ Replaying /\ j < Len(frames) /\ ~JustSubmitted(j))
                => <>(busFailed \/ JustSubmitted(j)))

C5_Witness ==
    /\ loop
    /\ pass = MaxPasses
    /\ ~busFailed
    /\ Len(frames) = MaxRows
    /\ JustSubmitted(MaxRows - 1)

\* C6: replay of an empty trace returns an error and neither suspends nor
\* submits anything, with and without loop.
C6_EmptyTrace ==
    (Len(frames) = 0 /\ bus = "open" /\ pc # "replay") =>
        /\ result.kind = "noframes"
        /\ log = <<>>
        /\ pass = 0
        /\ ~busFailed
        /\ pc \in {"return", "exit"}
        /\ exitCode # 0

C6_Witness ==
    /\ Len(frames) = 0
    /\ loop
    /\ result.kind = "noframes"
    /\ Len(file) = MaxRows + 1
    /\ pc = "exit"

\* The data row at 0-based position k of the file (the header is record 1).
DataRow(k) == file[k + 2]

DataPositions == 0..Len(file) - 2

\* parseCSV is over: it returned, or the process ended inside it.
ParserOver == pc \notin {"main", "open", "read", "rows"}

\* A row parses successfully: it has the columns, and the timestamp, the
\* identifier, the length and the payload columns the length asks for decode.
RowParses(record) ==
    /\ Len(record) >= MinColumns
    /\ ParseUint(record[1], 10, WordBits).ok
    /\ ParseUint(IdText(record[2]), 16, IdBits).ok
    /\ ParseUint(record[6], 10, LengthBits).ok
    /\ \A c \in 1..MaxPayload :
           c <= ParseUint(record[6], 10, LengthBits).val =>
               6 + c <= Len(record) /\ DecodesToByte(record[6 + c])

\* The timestamps of the rows of q that parse successfully, in order.
RECURSIVE ParsedStamps(_)
ParsedStamps(q) ==
    IF q = <<>> THEN <<>>
    ELSE IF RowParses(Head(q))
         THEN <<ParseUint(Head(q)[1], 10, WordBits).val>> \o ParsedStamps(Tail(q))
         ELSE ParsedStamps(Tail(q))

\* C7: for an input with a header and at least one data row the parser
\* returns success, and the trace is the subsequence of the data rows that
\* parse successfully, in their order: as many frames as such rows, with
\* their timestamps in row order.
C7_ValidRowsKept ==
    (Len(file) >= 2 /\ ParserOver) =>
        /\ parseErr = ""
        /\ exitCode # 2
        /\ Len(frames) = Len(ParsedStamps(Tail(file)))
        /\ \A k \in 1..Len(frames) : frames[k].Timestamp = ParsedStamps(Tail(file))[k]

\* The payload column D(c) that the declared length asks for is not supplied
\* by the record, or does not decode to one byte.
PayloadFault(record, c) ==
    /\ c \in 1..MaxPayload
    /\ c <= ParseUint(record[6], 10, LengthBits).val
    /\ (6 + c > Len(record) \/ ~DecodesToByte(record[6 + c]))

\* The row at position k has been through the loop body (or the process ended in it).
RowHandled(k) == pc \notin {"main", "open", "read"} /\ (k < row \/ (k = row /\ exitCode = 2))

\* C8: a data row of at least 12 columns whose timestamp, identifier and
\* length parse, and whose first faulty payload column is D(c) (not supplied,
\* or not one hex byte), is skipped with a warning naming column c, and the
\* process does not crash.
C8_PayloadFaultSkipped ==
    \A k \in DataPositions :
        \A c \in 1..MaxPayload :
            ( /\ RowHandled(k)
              /\ Len(DataRow(k)) >= MinColumns
              /\ ParseUint(DataRow(k)[1], 10, WordBits).ok
              /\ ParseUint(IdText(DataRow(k)[2]), 16, IdBits).ok
              /\ ParseUint(DataRow(k)[6], 10, LengthBits).ok
              /\ PayloadFault(DataRow(k), c)
              /\ \A b \in 1..c - 1 : ~PayloadFault(DataRow(k), b) )
            => /\ exitCode # 2
               /\ \E w \in 1..Len(warnings) : warnings[w] = <<k + 2, "invalid data byte", c>>

\* C9: a data row with fewer than 12 columns never makes the load fail or
\* crash, is skipped, and its warning reports row k + 2 for 0-based position k.
C9_ShortRowSkipped ==
    \A k \in DataPositions :
        Len(DataRow(k)) < MinColumns =>
            /\ ParserOver => (parseErr = "" /\ exitCode # 2 /\ k < row)
            /\ (pc \notin {"main", "open", "read"} /\ k < row) =>
                   \E w \in 1..Len(warnings) : warnings[w] = <<k + 2, "insufficient columns", 0>>

\* C10: every frame of the trace has a length in 0..8 and exactly that many
\* payload bytes, and a row that declares more than 8 with D1..D8 present is
\* skipped with a warning.
C10_LengthAtMost8 ==
    /\ \A k \in 1..Len(frames) :
           frames[k].Length <= MaxPayload /\ Len(frames[k].Data) = frames[k].Length
    /\ \A k \in DataPositions :
           ( /\ RowHandled(k)
             /\ Len(DataRow(k)) >= 6 + MaxPayload
             /\ ParseUint(DataRow(k)[6], 10, LengthBits).ok
             /\ ParseUint(DataRow(k)[6], 10, LengthBits).val > MaxPayload )
           => \E w \in 1..Len(warnings) : warnings[w][1] = k + 2

\* 0x7FF, the largest 11-bit (standard) identifier
StdIdMax == 2047

\* 0x1FFFFFFF, the largest 29-bit (extended) identifier
ExtIdMax == 536870911

\* C11: every frame of the trace has an identifier within the range of its
\* addressing mode, at most 0x7FF when not extended and at most 0x1FFFFFFF
\* when extended; a row with an identifier outside that range is skipped.
C11_IdInRange ==
    \A k \in 1..Len(frames) :
        frames[k].ID <= (IF frames[k].Extended THEN ExtIdMax ELSE StdIdMax)

\* C12: once main has acquired the transport, it is disconnected before the
\* process ends, whatever the outcome of the replay.
C12_BusReleased ==
    (pc = "exit" /\ bus # "closed") => bus = "disconnected"

\* C13: the process ends with status zero exactly when a replay without
\* loop submitted every frame of a non-empty trace and returned success; when
\* the trace source is missing or unreadable, the trace has no frame, or the
\* bus cannot be opened, the status is not zero and nothing was submitted.
C13_ExitStatus ==
    pc = "exit" =>
        /\ exitCode # -1
        /\ exitCode = 0 <=>
               ( /\ ~loop
                 /\ Len(frames) > 0
                 /\ result.kind = "nil"
                 /\ ~busFailed
                 /\ Len(Published) = Len(frames)
                 /\ InTraceOrder )
        /\ busFailed => exitCode # 0
        /\ (parseErr # "" \/ bus = "closed" \/ Len(frames) = 0) =>
               (exitCode # 0 /\ log = <<>> /\ ~busFailed)

C13_Witness ==
    /\ pc = "exit"
    /\ exitCode = 0
    /\ Len(frames) = 2
    /\ bus = "disconnected"

EmptyMessage == "CSV file is empty or has no data rows"

\* C14: an input of fewer than 2 rows (no row at all, or a header alone)
\* makes parsing fail with the error for a file without data rows; no trace
\* is returned, nothing is skipped with a warning, and main ends the process.
C14_TooFewRows ==
    /\ []((Len(file) = 1 /\ pc \notin {"open", "read"}) =>
            ( /\ pc = "exit"
              /\ parseErr = EmptyMessage
              /\ frames = <<>> /\ warnings = <<>>
              /\ exitCode = 1
              /\ bus = "closed" ))
    /\ [][(pc = "read" /\ Len(file) < 2) =>
            ( /\ pc' = "exit"
              /\ parseErr' = EmptyMessage
              /\ frames' = <<>> /\ warnings' = <<>>
              /\ exitCode' = 1 )]_vars

C14_Witness ==
    /\ pc = "exit"
    /\ file = <<>>
    /\ parseErr = EmptyMessage
    /\ exitCode = 1

Min(a, b) == IF a <= b THEN a ELSE b

\* C15: every submitted wire frame carries the identifier of its trace frame,
\* has the extended marker exactly when the frame's extended flag is true,
\* carries the frame's length, and carries the payload in 8 bytes: the first
\* min(length, 8) bytes are the frame's payload, the remaining bytes are zero.
C15_WireFrame ==
    \A k \in 1..Len(log) :
        log[k].op = "publish" =>
            LET f == frames[log[k].idx + 1]
                w == log[k].frame
            IN  /\ w.ID = f.ID
                /\ ("EFF" \in w.Flags) <=> f.Extended
                /\ w.Length = f.Length
                /\ DOMAIN w.Data = 1..MaxPayload
                /\ \A b \in 1..MaxPayload :
                       w.Data[b] = IF b <= Min(f.Length, MaxPayload) THEN f.Data[b] ELSE 0

C15_Witness ==
    /\ Len(Published) = 1
    /\ frames[1].Extended
    /\ frames[1].Length = 3
    /\ Published[1].frame.ID = 1524
    /\ "EFF" \in Published[1].frame.Flags
    /\ Published[1].frame.Data[1] = 171
    /\ Published[1].frame.Data[3] = 10
    /\ Published[1].frame.Data[4] = 0

HexDigits == <<"0", "1", "2", "3", "4", "5", "6", "7", "8", "9", "a", "b", "c", "d", "e", "f">>

\* Every character of s is a hex digit of either case.
IsHex(s) == \A k \in 1..Len(s) : InSeq(LowerChar(s[k]), HexDigits)

\* The number a text of hex digits denotes; the empty text denotes zero.
RECURSIVE HexValue(_)
HexValue(s) ==
    IF s = <<>> THEN 0
    ELSE HexValue(SubSeq(s, 1, Len(s) - 1)) * 16 + PosIn(LowerChar(s[Len(s)]), HexDigits) - 1

\* An identifier column without its optional 0x prefix.
Unprefixed(t) ==
    IF Len(t) >= 2 /\ t[1] = "0" /\ t[2] = "x" THEN SubSeq(t, 3, Len(t)) ELSE t

\* Every column of the row other than the identifier is acceptable.
OtherColumnsParse(record) ==
    /\ Len(record) >= MinColumns + 2
    /\ ParseUint(record[1], 10, WordBits).ok
    /\ ParseUint(record[6], 10, LengthBits).ok
    /\ \A c \in 1..MaxPayload : DecodesToByte(record[6 + c])

\* C16: the identifier column is read as the base-16 number its hex digits
\* denote, whatever their case, with or without a 0x prefix and with any
\* number of leading zeros: "0x0005F4", "5F4" and "05f4" give 0x5F4 and
\* "00000000" gives 0; a row whose identifier is not base-16 text after the
\* stripping is skipped.
C16_IdParsing ==
    (Len(file) = 2 /\ RowHandled(0) /\ OtherColumnsParse(DataRow(0))) =>
        LET t == DataRow(0)[2]
        IN  /\ (IsHex(Unprefixed(t)) /\ HexValue(Unprefixed(t)) <= MaxUint(IdBits)) =>
                   ( /\ Len(frames) = 1
                     /\ frames[1].ID = HexValue(Unprefixed(t))
                     /\ warnings = <<>> )
            /\ ~IsHex(Unprefixed(t)) =>
                   ( /\ frames = <<>>
                     /\ warnings = <<<<2, "invalid CAN ID", 0>>>> )
            /\ t \in {<<"0", "x", "0", "0", "0", "5", "F", "4">>, <<"5", "F", "4">>,
                      <<"0", "5", "f", "4">>} =>
                   (Len(frames) = 1 /\ frames[1].ID = 1524)
            /\ t = <<"0", "0", "0", "0", "0", "0", "0", "0">> =>
                   (Len(frames) = 1 /\ frames[1].ID = 0)

C16_Witness ==
    /\ Len(file) = 2
    /\ RowHandled(0)
    /\ DataRow(0)[2] = <<"0", "x", "0", "0", "0", "5", "F", "4">>
    /\ Len(frames) = 1
    /\ frames[1].ID = 1524

UpperHexDigits == <<"0", "1", "2", "3", "4", "5", "6", "7", "8", "9", "A", "B", "C", "D", "E", "F">>

\* A number written in the base with the fewest digits; zero is "0".
RECURSIVE Format(_, _)
Format(n, base) ==
    IF n < base THEN <<UpperHexDigits[n + 1]>>
    ELSE Format(n \div base, base) \o <<UpperHexDigits[(n % base) + 1]>>

\* A byte written as two hex digits.
FormatByte(b) == <<UpperHexDigits[(b \div 16) + 1], UpperHexDigits[(b % 16) + 1]>>

\* A frame written back as a 14-column row: timestamp, identifier as hex,
\* extended flag, direction, bus, length, and the payload as eight two-digit
\* hex columns, "00" where the frame has no byte.
EncodeRow(f) ==
    <<Format(f.Timestamp, 10), Format(f.ID, 16),
      IF f.Extended THEN <<"t", "r", "u", "e">> ELSE <<"f", "a", "l", "s", "e">>,
      Rx, <<"0">>, Format(f.Length, 10)>>
    \o [k \in 1..MaxPayload |-> IF k <= Len(f.Data) THEN FormatByte(f.Data[k]) ELSE Byte00]

\* C17: for every row that parses, writing the frame back as a row
\* (identifier as hex, extended flag, length, payload bytes as two-digit hex)
\* and parsing that row gives a frame with the same identifier, extended
\* flag, length and payload bytes.
C17_RoundTrip ==
    \A k \in 1..Len(frames) :
        LET again == ParseCANFrame(EncodeRow(frames[k]))
        IN  /\ again.st = "ok"
            /\ again.frame.ID = frames[k].ID
            /\ again.frame.Extended = frames[k].Extended
            /\ again.frame.Length = frames[k].Length
            /\ again.frame.Data = frames[k].Data

C17_Witness ==
    /\ Len(frames) = 1
    /\ frames[1].ID = 0
    /\ frames[1].Extended
    /\ frames[1].Data = <<171, 205, 10>>
    /\ EncodeRow(frames[1])[2] = <<"0">>
    /\ EncodeRow(frames[1])[9] = <<"0", "A">>
    /\ ParseCANFrame(EncodeRow(frames[1])).frame.Data = <<171, 205, 10>>

\* The timestamp of frame k (1-based) is below that of the frame before it.
Decreases(k) == k >= 2 /\ frames[k].Timestamp < frames[k - 1].Timestamp

\* C18: when the timestamp of frame k is below the one before it, the replay
\* suspends before submitting frame k for the unsigned wrapped difference, a
\* near-maximum delay.
C18_DecreaseStalls ==
    \A k \in 1..Len(Published) :
        Decreases(k) =>
            SleepsBefore(log, k) =
                <<ToUint64(frames[k].Timestamp - frames[k - 1].Timestamp) * Microsecond>>

\* C18, amended: the wrapped difference is read as a signed word, so a
\* decrease of d microseconds gives the delay -d microseconds whenever d
\* times 1000 fits the signed word: the delay is not positive, there is no
\* suspension, and frame k is submitted at once. For a larger decrease the
\* product wraps, and the replay suspends only if the wrapped signed product
\* is positive, for that many nanoseconds.
C18_DecreaseSendsAtOnce ==
    \A k \in 1..Len(Published) :
        Decreases(k) =>
            LET d == frames[k - 1].Timestamp - frames[k].Timestamp
                w == (2 ^ WordBits - ((d * Microsecond) % (2 ^ WordBits))) % (2 ^ WordBits)
            IN  /\ d * Microsecond <= 2 ^ (WordBits - 1) => SleepsBefore(log, k) = <<>>
                /\ SleepsBefore(log, k) =
                       IF w > 0 /\ w < 2 ^ (WordBits - 1) THEN <<w>> ELSE <<>>

C18_Witness ==
    /\ Len(frames) = 2
    /\ frames[1].Timestamp = 400
    /\ frames[2].Timestamp = 100
    /\ Len(Published) = 2
    /\ SleepsBefore(log, 2) = <<>>

\* C19: every frame submitted to the transport has a length field of at most
\* 8, the number of data bytes the wire frame carries.
C19_SubmittedLength ==
    \A k \in 1..Len(log) :
        log[k].op = "publish" => log[k].frame.Length <= MaxPayload

====
